---- MODULE Spec2Model ----
(***************************************************************************)
(* Model of httpexpect's Request builder (request.go): NewRequest, the     *)
(* With* configuration methods and Expect/sendRequest.                     *)
(*                                                                         *)
(* Strings are sequences of one-character strings, so that the slicing,    *)
(* scanning, escaping and parsing the code relies on are computed and not  *)
(* assumed.  Interface values (interface{}) are tagged records.            *)
(***************************************************************************)
EXTENDS Integers, Sequences, FiniteSets, TLC

(***************************************************************************)
(* Bounds of the model.                                                    *)
(***************************************************************************)
MaxCalls == 2
MaxExpects == 2

(***************************************************************************)
(* String helpers (package strings, slicing).                              *)
(***************************************************************************)
Last(s) == s[Len(s)]

HasSuffix(s, c) == Len(s) > 0 /\ Last(s) = c

HasPrefix(s, c) == Len(s) > 0 /\ Head(s) = c

HasPrefix2(s, c) == Len(s) > 1 /\ s[1] = c /\ s[2] = c

HasPrefix3(s, c) == Len(s) > 2 /\ s[1] = c /\ s[2] = c /\ s[3] = c

\* strings.Index for a one-byte needle, 1-based; 0 when absent (Go: -1)
Index(s, c) ==
  IF \E i \in 1..Len(s) : s[i] = c
    THEN CHOOSE i \in 1..Len(s) : s[i] = c /\ \A j \in 1..(i - 1) : s[j] # c
    ELSE 0

Count(s, c) == Cardinality({i \in 1..Len(s) : s[i] = c})

\* the printable ASCII characters in code order; Ascii[1] is byte 32
\* (byte 96, the grave accent, is spelled out)
Ascii == <<
  " ", "!", "\"", "#", "$", "%", "&", "'", "(", ")", "*", "+", ",", "-", ".", "/",
  "0", "1", "2", "3", "4", "5", "6", "7", "8", "9", ":", ";", "<", "=", ">", "?",
  "@", "A", "B", "C", "D", "E", "F", "G", "H", "I", "J", "K", "L", "M", "N", "O",
  "P", "Q", "R", "S", "T", "U", "V", "W", "X", "Y", "Z", "[", "\\", "]", "^", "_",
  "grave", "a", "b", "c", "d", "e", "f", "g", "h", "i", "j", "k", "l", "m", "n", "o",
  "p", "q", "r", "s", "t", "u", "v", "w", "x", "y", "z", "{", "|", "}", "~" >>

\* the byte value of a character
Ord(c) == 31 + (CHOOSE i \in 1..Len(Ascii) : Ascii[i] = c)

\* a byte outside the printable range has no character of its own here
OtherByte == "\\x"

CharOf(b) == IF b >= 32 /\ b <= 126 THEN Ascii[b - 31] ELSE OtherByte

IsLower(c) == c # OtherByte /\ Ord(c) >= 97 /\ Ord(c) <= 122

IsUpper(c) == c # OtherByte /\ Ord(c) >= 65 /\ Ord(c) <= 90

IsLetter(c) == IsLower(c) \/ IsUpper(c)

IsDigit(c) == c # OtherByte /\ Ord(c) >= 48 /\ Ord(c) <= 57

ToLower(c) == IF IsUpper(c) THEN CharOf(Ord(c) + 32) ELSE c

ToUpper(c) == IF IsLower(c) THEN CharOf(Ord(c) - 32) ELSE c

\* net/url ishex and unhex
ishex(c) ==
  IsDigit(c) \/ (c # OtherByte /\ ((Ord(c) >= 97 /\ Ord(c) <= 102) \/ (Ord(c) >= 65 /\ Ord(c) <= 70)))

unhex(c) ==
  IF IsDigit(c) THEN Ord(c) - 48
  ELSE IF IsLower(c) THEN Ord(c) - 97 + 10
  ELSE Ord(c) - 65 + 10

UpperHex == <<"0", "1", "2", "3", "4", "5", "6", "7", "8", "9", "A", "B", "C", "D", "E", "F">>

(***************************************************************************)
(* concatURLs, request.go.                                                 *)
(***************************************************************************)
\* concatURLs joining with a slash without stripping any
concatURLs_keepSlashes(a, b) ==
  IF a = <<>> THEN b
  ELSE IF b = <<>> THEN a
  ELSE a \o <<"/">> \o b

\* concatURLs without its two checks for an empty string
concatURLs_alwaysJoin(a, b) ==
  LET a1 == IF HasSuffix(a, "/") THEN SubSeq(a, 1, Len(a) - 1) ELSE a
      b1 == IF HasPrefix(b, "/") THEN Tail(b) ELSE b
  IN  a1 \o <<"/">> \o b1

concatURLs(a, b) ==
  IF a = <<>> THEN b
  ELSE IF b = <<>> THEN a
  ELSE LET a1 == IF HasSuffix(a, "/") THEN SubSeq(a, 1, Len(a) - 1) ELSE a
           b1 == IF HasPrefix(b, "/") THEN Tail(b) ELSE b
       IN  a1 \o <<"/">> \o b1

(***************************************************************************)
(* Values of type interface{}: nil, an int, a string, or a channel (a      *)
(* value encoding/json cannot serialize).                                  *)
(***************************************************************************)
Nil == [t |-> "nil", n |-> 0, s |-> <<>>]

IntV(i) == [t |-> "int", n |-> i, s |-> <<>>]

StrV(str) == [t |-> "string", n |-> 0, s |-> str]

ChanV == [t |-> "chan", n |-> 0, s |-> <<>>]

DigitChar(d) ==
  CASE d = 0 -> "0" [] d = 1 -> "1" [] d = 2 -> "2" [] d = 3 -> "3" [] d = 4 -> "4"
    [] d = 5 -> "5" [] d = 6 -> "6" [] d = 7 -> "7" [] d = 8 -> "8" [] d = 9 -> "9"

RECURSIVE Itoa(_)
\* decimal formatting of an int, as fmt and encoding/json print it
Itoa(i) ==
  IF i < 0 THEN <<"-">> \o Itoa(0 - i)
  ELSE IF i < 10 THEN <<DigitChar(i)>>
  ELSE Itoa(i \div 10) \o <<DigitChar(i % 10)>>

NilAngle == <<"<", "n", "i", "l", ">">>

\* the name fmt prints for the dynamic type of a value in %!verb(type=value)
TypeName(v) ==
  IF v.t = "int" THEN <<"i", "n", "t">>
  ELSE IF v.t = "string" THEN <<"s", "t", "r", "i", "n", "g">>
  ELSE <<"c", "h", "a", "n">>

ChanAddr == <<"0", "x", "c", "0">>

\* fmt.Sprint(value): the %v form of one operand
Sprint(v) ==
  IF v.t = "nil" THEN NilAngle
  ELSE IF v.t = "int" THEN Itoa(v.n)
  ELSE IF v.t = "string" THEN v.s
  ELSE ChanAddr

\* fmt's printArg for the verbs s, d and v (the verbs the formats use);
\* any other pairing of verb and operand is a bad verb: %!verb(type=value)
PrintArg(v, verb) ==
  IF v.t = "nil"
    THEN IF verb = "v" THEN NilAngle
         ELSE <<"%", "!", verb, "(">> \o NilAngle \o <<")">>
  ELSE IF verb = "v" \/ (verb = "d" /\ v.t = "int") \/ (verb = "s" /\ v.t = "string")
    THEN Sprint(v)
  ELSE <<"%", "!", verb, "(">> \o TypeName(v) \o <<"=">> \o Sprint(v) \o <<")">>

RECURSIVE ExtraArgs(_, _)
\* the operands left over after the format is exhausted, "type=value, ..."
ExtraArgs(args, i) ==
  IF i > Len(args) THEN <<>>
  ELSE (IF args[i].t = "nil" THEN NilAngle
        ELSE TypeName(args[i]) \o <<"=">> \o Sprint(args[i]))
       \o (IF i < Len(args) THEN <<",", " ">> ELSE <<>>)
       \o ExtraArgs(args, i + 1)

RECURSIVE doPrintf(_, _, _, _)
\* fmt.Sprintf(format, args...): i is the position in format, argNum the
\* number of operands consumed
doPrintf(format, i, args, argNum) ==
  IF i > Len(format)
    THEN IF argNum < Len(args)
           THEN <<"%", "!", "(", "E", "X", "T", "R", "A", " ">>
                \o ExtraArgs(args, argNum + 1) \o <<")">>
           ELSE <<>>
  ELSE IF format[i] # "%"
    THEN <<format[i]>> \o doPrintf(format, i + 1, args, argNum)
  ELSE IF i = Len(format)
    THEN <<"%", "!", "(", "N", "O", "V", "E", "R", "B", ")">>
         \o doPrintf(format, i + 1, args, argNum)
  ELSE IF format[i + 1] = "%"
    THEN <<"%">> \o doPrintf(format, i + 2, args, argNum)
  ELSE IF argNum >= Len(args)
    THEN <<"%", "!", format[i + 1], "(", "M", "I", "S", "S", "I", "N", "G", ")">>
         \o doPrintf(format, i + 2, args, argNum)
  ELSE PrintArg(args[argNum + 1], format[i + 1])
       \o doPrintf(format, i + 2, args, argNum + 1)

Sprintf(format, args) == doPrintf(format, 1, args, 0)

(***************************************************************************)
(* Package net/url, as far as request.go uses it: url.Parse, URL.Query     *)
(* (url.ParseQuery) and Values.Add / Values.Encode.  Strings drawn by the  *)
(* model hold no '#', '@', '[', ';' or control byte, so fragments,         *)
(* userinfo, IPv6 literals and those two error cases are left out.         *)
(***************************************************************************)
NoError == "nil"

\* every '%' is followed by two hex digits
ValidEscapes(str) ==
  \A i \in 1..Len(str) :
    str[i] = "%" => (i + 2 <= Len(str) /\ ishex(str[i + 1]) /\ ishex(str[i + 2]))

RECURSIVE unescapeFrom(_, _, _)
\* the decoding pass of url.unescape on a string whose escapes are valid
unescapeFrom(str, i, plusIsSpace) ==
  IF i > Len(str) THEN <<>>
  ELSE IF str[i] = "%"
    THEN <<CharOf(unhex(str[i + 1]) * 16 + unhex(str[i + 2]))>>
         \o unescapeFrom(str, i + 3, plusIsSpace)
  ELSE IF str[i] = "+" /\ plusIsSpace
    THEN <<" ">> \o unescapeFrom(str, i + 1, plusIsSpace)
  ELSE <<str[i]>> \o unescapeFrom(str, i + 1, plusIsSpace)

\* url.QueryUnescape
QueryUnescape(str) ==
  IF ValidEscapes(str) THEN [err |-> NoError, s |-> unescapeFrom(str, 1, TRUE)]
  ELSE [err |-> "invalid URL escape", s |-> <<>>]

\* url.shouldEscape(c, encodeQueryComponent)
shouldEscape(c) ==
  ~(IsLetter(c) \/ IsDigit(c) \/ c \in {"-", "_", ".", "~"})

RECURSIVE QueryEscape(_)
\* url.QueryEscape
QueryEscape(str) ==
  IF str = <<>> THEN <<>>
  ELSE LET c == Head(str)
       IN  (IF c = " " THEN <<"+">>
            ELSE IF shouldEscape(c)
              THEN <<"%", UpperHex[(Ord(c) \div 16) + 1], UpperHex[(Ord(c) % 16) + 1]>>
            ELSE <<c>>)
           \o QueryEscape(Tail(str))

\* strings.Cut(str, sep): the parts before and after the first sep
CutBefore(str, sep) ==
  IF Index(str, sep) = 0 THEN str ELSE SubSeq(str, 1, Index(str, sep) - 1)

CutAfter(str, sep) ==
  IF Index(str, sep) = 0 THEN <<>> ELSE SubSeq(str, Index(str, sep) + 1, Len(str))

\* Values.Add(key, value) on a url.Values (a map from key to value list)
ValuesAdd(m, key, value) ==
  IF key \in DOMAIN m
    THEN [m EXCEPT ![key] = Append(@, value)]
    ELSE (key :> <<value>>) @@ m

EmptyValues == [k \in {} |-> <<>>]

RECURSIVE parseQuery(_, _)
\* url.parseQuery: pairs that do not unescape are skipped
parseQuery(m, query) ==
  IF query = <<>> THEN m
  ELSE LET pair == CutBefore(query, "&")
           rest == CutAfter(query, "&")
           key == QueryUnescape(CutBefore(pair, "="))
           value == QueryUnescape(CutAfter(pair, "="))
       IN  IF pair = <<>> \/ key.err # NoError \/ value.err # NoError
             THEN parseQuery(m, rest)
             ELSE parseQuery(ValuesAdd(m, key.s, value.s), rest)

\* bytewise string order, as sort.Strings uses it
RECURSIVE StrLess(_, _)
StrLess(a, b) ==
  IF b = <<>> THEN FALSE
  ELSE IF a = <<>> THEN TRUE
  ELSE IF Head(a) = Head(b) THEN StrLess(Tail(a), Tail(b))
  ELSE Ord(Head(a)) < Ord(Head(b))

RECURSIVE SortedKeys_descending(_)
\* the keys in descending order
SortedKeys_descending(keys) ==
  IF keys = {} THEN <<>>
  ELSE LET k == CHOOSE x \in keys : \A y \in keys \ {x} : StrLess(y, x)
       IN  <<k>> \o SortedKeys_descending(keys \ {k})

RECURSIVE SortedKeys(_)
SortedKeys(keys) ==
  IF keys = {} THEN <<>>
  ELSE LET k == CHOOSE x \in keys : \A y \in keys \ {x} : StrLess(x, y)
       IN  <<k>> \o SortedKeys(keys \ {k})

RECURSIVE encodeKey(_, _, _)
\* the pairs of one key, each preceded by '&'
encodeKey(key, vs, i) ==
  IF i > Len(vs) THEN <<>>
  ELSE <<"&">> \o QueryEscape(key) \o <<"=">> \o QueryEscape(vs[i])
       \o encodeKey(key, vs, i + 1)

RECURSIVE encodeKeys(_, _, _)
encodeKeys(m, keys, i) ==
  IF i > Len(keys) THEN <<>>
  ELSE encodeKey(keys[i], m[keys[i]], 1) \o encodeKeys(m, keys, i + 1)

\* Values.Encode: "bar=baz&foo=quux", sorted by key
Encode(m) ==
  LET all == encodeKeys(m, SortedKeys(DOMAIN m), 1)
  IN  IF all = <<>> THEN <<>> ELSE Tail(all)

NilURL ==
  [isNil |-> TRUE, Scheme |-> <<>>, Opaque |-> <<>>, Host |-> <<>>,
   Path |-> <<>>, RawQuery |-> <<>>, ForceQuery |-> FALSE]

SchemeChar(c) == IsLetter(c) \/ IsDigit(c) \/ c \in {"+", "-", "."}

\* url.getScheme: the position of the ':' that ends the scheme, 0 when the
\* string has no scheme, -1 for the error "missing protocol scheme"
getScheme(rawURL) ==
  LET stops == {i \in 1..Len(rawURL) : ~SchemeChar(rawURL[i])}
      stop == CHOOSE i \in stops : \A j \in stops : i <= j
  IN  IF rawURL = <<>> THEN 0
      ELSE IF rawURL[1] = ":" THEN 0 - 1
      ELSE IF ~IsLetter(rawURL[1]) THEN 0
      ELSE IF stops = {} THEN 0
      ELSE IF rawURL[stop] # ":" THEN 0
      ELSE stop

RECURSIVE MapLower(_)
MapLower(str) == IF str = <<>> THEN <<>> ELSE <<ToLower(Head(str))>> \o MapLower(Tail(str))

\* url.validOptionalPort on the part of the host from its last ':' on
validOptionalPort(host) ==
  LET colons == {i \in 1..Len(host) : host[i] = ":"}
      last == CHOOSE i \in colons : \A j \in colons : j <= i
  IN  colons = {} \/ \A j \in (last + 1)..Len(host) : IsDigit(host[j])

\* url.parseAuthority / parseHost: the error, or NoError
hostError(host) ==
  IF ~validOptionalPort(host) THEN "invalid port"
  ELSE IF ~ValidEscapes(host) THEN "invalid URL escape"
  ELSE IF \E i \in 1..Len(host) :
            host[i] = "%" /\ unhex(host[i + 1]) < 8
              /\ SubSeq(host, i, i + 2) # <<"%", "2", "5">>
    THEN "invalid URL escape"
  ELSE IF \E i \in 1..Len(host) : host[i] \in {" ", "^", "grave", "{", "|", "}", "\\"}
    THEN "invalid character in host name"
  ELSE NoError

ParsedURL(scheme, opaque, host, path, rawQuery, force) ==
  [url |-> [isNil |-> FALSE, Scheme |-> scheme, Opaque |-> opaque, Host |-> host,
            Path |-> path, RawQuery |-> rawQuery, ForceQuery |-> force],
   err |-> NoError]

ParseError(e) == [url |-> NilURL, err |-> e]

\* the end of url.parse: the authority (when the rest starts with "//") and
\* the path
parseAuthorityAndPath(scheme, hasAuthority, authority, path, rawQuery, force) ==
  IF hasAuthority /\ hostError(authority) # NoError THEN ParseError(hostError(authority))
  ELSE IF ~ValidEscapes(path) THEN ParseError("invalid URL escape")
  ELSE ParsedURL(scheme, <<>>,
                 IF hasAuthority THEN unescapeFrom(authority, 1, FALSE) ELSE <<>>,
                 unescapeFrom(path, 1, FALSE), rawQuery, force)

\* rest is what follows "//"
splitAuthority(scheme, rest, rawQuery, force) ==
  parseAuthorityAndPath(scheme, TRUE, CutBefore(rest, "/"),
                        IF Index(rest, "/") = 0 THEN <<>>
                        ELSE SubSeq(rest, Index(rest, "/"), Len(rest)),
                        rawQuery, force)

\* url.parse once scheme and query are split off
parseRest(scheme, rest, rawQuery, force) ==
  IF ~HasPrefix(rest, "/") /\ scheme # <<>>
    THEN ParsedURL(scheme, rest, <<>>, <<>>, rawQuery, force)
  ELSE IF ~HasPrefix(rest, "/") /\ Index(CutBefore(rest, "/"), ":") # 0
    THEN ParseError("first path segment in URL cannot contain colon")
  ELSE IF HasPrefix2(rest, "/") /\ (scheme # <<>> \/ ~HasPrefix3(rest, "/"))
    THEN splitAuthority(scheme, SubSeq(rest, 3, Len(rest)), rawQuery, force)
  ELSE parseAuthorityAndPath(scheme, FALSE, <<>>, rest, rawQuery, force)

\* url.parse once the scheme is split off: a lone trailing '?' sets
\* ForceQuery, otherwise the query starts after the first '?'
splitQuery(scheme, rest) ==
  IF HasSuffix(rest, "?") /\ Count(rest, "?") = 1
    THEN parseRest(scheme, SubSeq(rest, 1, Len(rest) - 1), <<>>, TRUE)
    ELSE parseRest(scheme, CutBefore(rest, "?"), CutAfter(rest, "?"), FALSE)

\* colon is getScheme(rawURL)
parseFrom(rawURL, colon) ==
  IF colon < 0 THEN ParseError("missing protocol scheme")
  ELSE IF rawURL = <<"*">> THEN ParsedURL(<<>>, <<>>, <<>>, <<"*">>, <<>>, FALSE)
  ELSE IF colon > 0
    THEN splitQuery(MapLower(SubSeq(rawURL, 1, colon - 1)),
                    SubSeq(rawURL, colon + 1, Len(rawURL)))
  ELSE splitQuery(<<>>, rawURL)

\* url.Parse(rawURL): [url, err]; url is NilURL exactly when err is an error
Parse(rawURL) == parseFrom(rawURL, getScheme(rawURL))

\* URL.Query(): the parsed RawQuery, parse errors dropped
Query(u) == parseQuery(EmptyValues, u.RawQuery)

\* URL.IsAbs()
IsAbs(u) == ~u.isNil /\ u.Scheme # <<>>

(***************************************************************************)
(* encoding/json Marshal on the values above, and net/http Header.Add.     *)
(***************************************************************************)
RECURSIVE jsonString(_)
\* the body of a JSON string: quotes and backslashes escaped, and '<', '>',
\* '&' written as \u00XX as json.Marshal does
jsonString(str) ==
  IF str = <<>> THEN <<>>
  ELSE LET c == Head(str)
       IN  (IF c \in {"\"", "\\"} THEN <<"\\", c>>
            ELSE IF c \in {"<", ">", "&"}
              THEN <<"\\", "u", "0", "0", ToLower(UpperHex[(Ord(c) \div 16) + 1]),
                     ToLower(UpperHex[(Ord(c) % 16) + 1])>>
            ELSE <<c>>)
           \o jsonString(Tail(str))

\* json.Marshal(object): [b, err]
Marshal(v) ==
  IF v.t = "nil" THEN [b |-> <<"n", "u", "l", "l">>, err |-> NoError]
  ELSE IF v.t = "int" THEN [b |-> Itoa(v.n), err |-> NoError]
  ELSE IF v.t = "string"
    THEN [b |-> <<"\"">> \o jsonString(v.s) \o <<"\"">>, err |-> NoError]
  ELSE [b |-> <<>>, err |-> "json: unsupported type"]

\* textproto's validHeaderFieldByte: the token characters of RFC 7230
validHeaderFieldByte(c) ==
  IsLetter(c) \/ IsDigit(c)
    \/ c \in {"!", "#", "$", "%", "&", "'", "*", "+", "-", ".", "^", "_", "grave", "|", "~"}

RECURSIVE canonicalFrom(_, _, _)
canonicalFrom(key, i, upper) ==
  IF i > Len(key) THEN <<>>
  ELSE <<IF upper THEN ToUpper(key[i]) ELSE ToLower(key[i])>>
       \o canonicalFrom(key, i + 1, key[i] = "-")

\* textproto.CanonicalMIMEHeaderKey
CanonicalMIMEHeaderKey(key) ==
  IF \E i \in 1..Len(key) : ~validHeaderFieldByte(key[i]) THEN key
  ELSE canonicalFrom(key, 1, TRUE)

\* Header.Add storing the value under the key as it is written
HeaderAdd_asWritten(h, key, value) == ValuesAdd(h, key, value)

\* http.Header.Add(key, value)
HeaderAdd(h, key, value) == ValuesAdd(h, CanonicalMIMEHeaderKey(key), value)

(***************************************************************************)
(* The chain (failure sink) of a builder: fail records a failure, failed   *)
(* reports whether one was recorded.  nfail counts the failures recorded.  *)
(***************************************************************************)
makeChain == [failbit |-> FALSE, nfail |-> 0]

fail(c) == [failbit |-> TRUE, nfail |-> c.nfail + 1]

failed(c) == c.failbit

(***************************************************************************)
(* type Request struct: config, chain, http (http.Request), query.         *)
(* A nil url.Values is query.isNil; a nil Body is NoBody.                  *)
(***************************************************************************)
NilValues == [isNil |-> TRUE, m |-> EmptyValues]

NoBody == [kind |-> "nil", reader |-> "", data |-> <<>>]

\* readCloserAdapter{reader}
StreamBody(reader) == [kind |-> "stream", reader |-> reader, data |-> <<>>]

\* readCloserAdapter{bytes.NewReader(b)}
BytesBody(b) == [kind |-> "bytes", reader |-> "", data |-> b]

\* NewRequest without its loop over args
failNilArgs_skip(c, args, i) == c

RECURSIVE failNilArgs(_, _, _)
\* the loop over args of NewRequest: one chain.fail per nil argument
failNilArgs(c, args, i) ==
  IF i > Len(args) THEN c
  ELSE failNilArgs(IF args[i].t = "nil" THEN fail(c) ELSE c, args, i + 1)

\* NewRequest building the Request with a chain of its own making
newRequestFrom_freshChain(cfg, method, chain0, parsed) ==
  [config |-> cfg,
   chain |-> makeChain,
   http |-> [Method |-> method, URL |-> parsed.url, Header |-> EmptyValues,
             Body |-> NoBody, ContentLength |-> 0],
   query |-> NilValues]

\* NewRequest dropping the error of url.Parse
newRequestFrom_ignoreParseError(cfg, method, chain0, parsed) ==
  [config |-> cfg,
   chain |-> chain0,
   http |-> [Method |-> method, URL |-> parsed.url, Header |-> EmptyValues,
             Body |-> NoBody, ContentLength |-> 0],
   query |-> NilValues]

\* the end of NewRequest: chain0 is the chain after the loop over args,
\* parsed what url.Parse returned
newRequestFrom(cfg, method, chain0, parsed) ==
  [config |-> cfg,
   chain |-> IF parsed.err # NoError THEN fail(chain0) ELSE chain0,
   http |-> [Method |-> method, URL |-> parsed.url, Header |-> EmptyValues,
             Body |-> NoBody, ContentLength |-> 0],
   query |-> NilValues]

NewRequest(cfg, method, urlfmt, args) ==
  newRequestFrom(cfg, method, failNilArgs(makeChain, args, 1),
                 Parse(concatURLs(cfg.BaseURL, Sprintf(urlfmt, args))))

\* The With* methods return the receiver; here they return the receiver's
\* new value.  WithQuery dereferences r.http.URL: on a nil URL it panics,
\* which WithQueryPanics tells, and the receiver is then left as it was.
WithQueryPanics(r) == r.query.isNil /\ r.http.URL.isNil

\* WithQuery with url.Values.Set in place of url.Values.Add
WithQuery_set(r, key, value) ==
  IF WithQueryPanics(r) THEN r
  ELSE LET q == IF r.query.isNil THEN Query(r.http.URL) ELSE r.query.m
       IN  [r EXCEPT !.query = [isNil |-> FALSE,
                                m |-> (key :> <<Sprint(value)>>) @@ q]]

WithQuery(r, key, value) ==
  IF WithQueryPanics(r) THEN r
  ELSE LET q == IF r.query.isNil THEN Query(r.http.URL) ELSE r.query.m
       IN  [r EXCEPT !.query = [isNil |-> FALSE, m |-> ValuesAdd(q, key, Sprint(value))]]

WithHeader(r, k, v) == [r EXCEPT !.http.Header = HeaderAdd(@, k, v)]

RECURSIVE addHeaders_set(_, _, _)
\* the loop of WithHeaders with Header.Set in place of Header.Add
addHeaders_set(r, entries, i) ==
  IF i > Len(entries) THEN r
  ELSE addHeaders_set(
         [r EXCEPT !.http.Header =
            (CanonicalMIMEHeaderKey(entries[i][1]) :> <<entries[i][2]>>) @@ @],
         entries, i + 1)

RECURSIVE addHeaders(_, _, _)
addHeaders(r, entries, i) ==
  IF i > Len(entries) THEN r
  ELSE addHeaders(WithHeader(r, entries[i][1], entries[i][2]), entries, i + 1)

\* WithHeaders(headers): entries is the map's entries in the order the
\* range statement happens to yield them
WithHeaders(r, entries) == addHeaders(r, entries, 1)

\* WithBody dropping the headers along with the body on a nil reader
WithBody_dropHeaders(r, reader) ==
  IF reader = ""
    THEN [r EXCEPT !.http.Body = NoBody, !.http.ContentLength = 0,
                   !.http.Header = EmptyValues]
    ELSE [r EXCEPT !.http.Body = StreamBody(reader), !.http.ContentLength = 0 - 1]

WithBody(r, reader) ==
  IF reader = ""
    THEN [r EXCEPT !.http.Body = NoBody, !.http.ContentLength = 0]
    ELSE [r EXCEPT !.http.Body = StreamBody(reader), !.http.ContentLength = 0 - 1]

\* WithBytes leaving ContentLength alone when it clears the body
WithBytes_keepLength(r, b) ==
  IF b.isNil
    THEN [r EXCEPT !.http.Body = NoBody]
    ELSE [r EXCEPT !.http.Body = BytesBody(b.data), !.http.ContentLength = Len(b.data)]

\* b is [isNil, data]: a nil slice and an empty slice differ
WithBytes(r, b) ==
  IF b.isNil
    THEN [r EXCEPT !.http.Body = NoBody, !.http.ContentLength = 0]
    ELSE [r EXCEPT !.http.Body = BytesBody(b.data), !.http.ContentLength = Len(b.data)]

\* WithJSON replacing the Content-Type values by the one it sets
WithJSON_setHeader(r, object) ==
  IF Marshal(object).err # NoError THEN [r EXCEPT !.chain = fail(@)]
  ELSE WithBytes(
             [r EXCEPT !.http.Header =
                (<<"C", "o", "n", "t", "e", "n", "t", "-", "T", "y", "p", "e">> :>
                   <<<<"a", "p", "p", "l", "i", "c", "a", "t", "i", "o", "n", "/",
                       "j", "s", "o", "n", ";", " ", "c", "h", "a", "r", "s", "e", "t",
                       "=", "u", "t", "f", "-", "8">>>>) @@ @],
             [isNil |-> FALSE, data |-> Marshal(object).b])

\* WithJSON clearing the body when json.Marshal fails
WithJSON_clearOnError(r, object) ==
  IF Marshal(object).err # NoError
    THEN [r EXCEPT !.chain = fail(@), !.http.Body = NoBody, !.http.ContentLength = 0]
  ELSE WithBytes(
             WithHeader(r, <<"C", "o", "n", "t", "e", "n", "t", "-", "T", "y", "p", "e">>,
                        <<"a", "p", "p", "l", "i", "c", "a", "t", "i", "o", "n", "/",
                          "j", "s", "o", "n", ";", " ", "c", "h", "a", "r", "s", "e", "t",
                          "=", "u", "t", "f", "-", "8">>),
             [isNil |-> FALSE, data |-> Marshal(object).b])

WithJSON(r, object) ==
  IF Marshal(object).err # NoError THEN [r EXCEPT !.chain = fail(@)]
  ELSE WithBytes(
             WithHeader(r, <<"C", "o", "n", "t", "e", "n", "t", "-", "T", "y", "p", "e">>,
                        <<"a", "p", "p", "l", "i", "c", "a", "t", "i", "o", "n", "/",
                          "j", "s", "o", "n", ";", " ", "c", "h", "a", "r", "s", "e", "t",
                          "=", "u", "t", "f", "-", "8">>),
             [isNil |-> FALSE, data |-> Marshal(object).b])

NilResponse == "nil"

\* a collaborator call: the function, the URL of the request as it is at the
\* time of the call, and the response passed (Printer.Response only)
Call(fn, req, resp) == [fn |-> fn, url |-> req.URL, resp |-> resp]

Sent(r, resp, calls, panic) == [r |-> r, resp |-> resp, calls |-> calls, panic |-> panic]

\* dispatchCalls calling Printer.Response whether or not Client.Do failed
dispatchCalls_alwaysResponse(r, do) ==
  (IF r.config.Printer THEN <<Call("Printer.Request", r.http, NilResponse)>> ELSE <<>>)
    \o <<Call("Client.Do", r.http, NilResponse)>>
    \o (IF r.config.Printer THEN <<Call("Printer.Response", r.http, do.resp)>> ELSE <<>>)

\* the collaborator calls of a dispatch, in order: Printer.Request if a
\* printer is set, Client.Do, Printer.Response if a printer is set and
\* Client.Do returned no error
dispatchCalls(r, do) ==
  (IF r.config.Printer THEN <<Call("Printer.Request", r.http, NilResponse)>> ELSE <<>>)
    \o <<Call("Client.Do", r.http, NilResponse)>>
    \o (IF do.err = NoError /\ r.config.Printer
          THEN <<Call("Printer.Response", r.http, do.resp)>>
          ELSE <<>>)

\* sendRequest from the Printer.Request call on, the query being encoded
dispatch(r, do) ==
  IF do.err # NoError
    THEN Sent([r EXCEPT !.chain = fail(@)], NilResponse, dispatchCalls(r, do), FALSE)
    ELSE Sent(r, do.resp, dispatchCalls(r, do), FALSE)

\* sendRequest without its check of r.chain.failed()
sendRequest_noFailedCheck(r, do) ==
  IF r.query.isNil THEN dispatch(r, do)
  ELSE IF r.http.URL.isNil THEN Sent(r, NilResponse, <<>>, TRUE)
  ELSE dispatch([r EXCEPT !.http.URL.RawQuery = Encode(r.query.m)], do)

\* sendRequest encoding the query only after the collaborators were called
sendRequest_lateEncode(r, do) ==
  IF failed(r.chain) THEN Sent(r, NilResponse, <<>>, FALSE)
  ELSE IF r.query.isNil THEN dispatch(r, do)
  ELSE IF r.http.URL.isNil THEN Sent(r, NilResponse, <<>>, TRUE)
  ELSE [dispatch(r, do) EXCEPT !.r.http.URL.RawQuery = Encode(r.query.m)]

\* sendRequest with do = [resp, err], what Client.Do returns when called:
\* [r, resp, calls, panic]; calls lists the collaborator calls made, in order
sendRequest(r, do) ==
  IF failed(r.chain) THEN Sent(r, NilResponse, <<>>, FALSE)
  ELSE IF r.query.isNil THEN dispatch(r, do)
  ELSE IF r.http.URL.isNil THEN Sent(r, NilResponse, <<>>, TRUE)
  ELSE dispatch([r EXCEPT !.http.URL.RawQuery = Encode(r.query.m)], do)

\* the &Response{chain: r.chain, resp: resp} of Expect, r.chain being read
\* after sendRequest returned
expectFrom(sent) ==
  [r |-> sent.r,
   handle |-> [chain |-> sent.r.chain, resp |-> sent.resp],
   calls |-> sent.calls,
   panic |-> sent.panic]

\* Expect copying r.chain into the Response before sendRequest runs
Expect_chainBefore(r, do) ==
  [expectFrom(sendRequest(r, do)) EXCEPT !.handle.chain = r.chain]

\* Expect: [r, handle, calls, panic]
Expect(r, do) == expectFrom(sendRequest(r, do))

(***************************************************************************)
(* The inputs the model draws.                                             *)
(***************************************************************************)
BaseURLs == {<<>>, <<"h", ":", "/", "/", "e", "/">>}

\* the url format "/%s?a=0" and the argument lists it is used with: one that
\* fits, none (the joined string then fails to parse), a nil one (which
\* fails to parse too), and a nil one in excess (which ends up in the query)
Formats == {<<"/", "%", "s", "?", "a", "=", "0">>}

ArgLists == {<<StrV(<<"x">>)>>, <<>>, <<Nil>>, <<StrV(<<"x">>), Nil>>}

Configs == [BaseURL : BaseURLs, Printer : BOOLEAN]

Methods == {"PUT"}

\* the (key, value) arguments of WithQuery
QueryArgs == {<<<<"a">>, IntV(1)>>, <<<<"a">>, StrV(<<"x", " ">>)>>, <<<<"b">>, IntV(1)>>}

\* the (key, value) arguments of WithHeader
HeaderArgs == {<<<<"x">>, <<"1">>>>, <<<<"X">>, <<"2">>>>}

\* the maps passed to WithHeaders, each as the set of orders in which its
\* entries can be ranged over: the empty map, one whose two keys differ in
\* case only, one whose two keys differ
HeaderMaps ==
  {{<<>>},
   {<< <<<<"x">>, <<"1">>>>, <<<<"X">>, <<"2">>>> >>,
    << <<<<"X">>, <<"2">>>>, <<<<"x">>, <<"1">>>> >>},
   {<< <<<<"x">>, <<"1">>>>, <<<<"y">>, <<"3">>>> >>,
    << <<<<"y">>, <<"3">>>>, <<<<"x">>, <<"1">>>> >>}}

\* io.Reader arguments: "" is the nil reader
Readers == {"", "r1"}

ByteSlices ==
  {[isNil |-> TRUE, data |-> <<>>], [isNil |-> FALSE, data |-> <<>>],
   [isNil |-> FALSE, data |-> <<"x">>]}

Objects == {StrV(<<"<">>), ChanV}

\* the header WithJSON adds
JSONContentType ==
  <<<<"C", "o", "n", "t", "e", "n", "t", "-", "T", "y", "p", "e">>,
    <<"a", "p", "p", "l", "i", "c", "a", "t", "i", "o", "n", "/",
      "j", "s", "o", "n", ";", " ", "c", "h", "a", "r", "s", "e", "t",
      "=", "u", "t", "f", "-", "8">>>>

NoDo == [resp |-> "none", err |-> "none"]

\* what Client.Do can return: a response, an error, and (against its
\* contract) both or neither
DoResults ==
  {[resp |-> "resp", err |-> NoError],
   [resp |-> NilResponse, err |-> "transport error"],
   [resp |-> "resp", err |-> "transport error"],
   [resp |-> NilResponse, err |-> NoError]}

(***************************************************************************)
(* State: the fields of the one Request under construction, what its last  *)
(* Expect returned and called, and a record of the calls made so far.      *)
(***************************************************************************)
VARIABLES
  config,     \* r.config
  chain,      \* r.chain
  http,       \* r.http
  query,      \* r.query
  panicked,   \* a call on the builder panicked
  handle,     \* the *Response the last Expect returned
  calls,      \* the collaborator calls of the last Expect, in order
  doCount,    \* number of Client.Do calls so far
  ctor,       \* the arguments NewRequest was called with
  us,         \* the string NewRequest joined and handed to url.Parse
  op,         \* the last call made on the builder
  added,      \* the (key, value) pairs of the WithQuery calls that returned
  lastBody,   \* the last body call that did not fail
  lastHeaders, \* the (key, value) pairs the last call added to the headers
  nCalls,     \* number of configuration calls so far
  nExpects    \* number of Expect calls so far

vars ==
  <<config, chain, http, query, panicked, handle, calls, doCount, ctor, us, op, added,
    lastBody, lastHeaders, nCalls, nExpects>>

Self == [config |-> config, chain |-> chain, http |-> http, query |-> query]

Store(r) ==
  /\ config' = r.config
  /\ chain' = r.chain
  /\ http' = r.http
  /\ query' = r.query

\* a call on the builder: the method, whether it failed (WithJSON) or
\* panicked (WithQuery), what Client.Do returned if it was called, and
\* whether the chain was failed when the call was made
Op(name, err, do, wasFailed) ==
  [name |-> name, err |-> err, do |-> do, wasFailed |-> wasFailed]

BodyCall(name, isNil, reader, data) ==
  [name |-> name, isNil |-> isNil, reader |-> reader, data |-> data]

Init ==
  \E cfg \in Configs, method \in Methods, urlfmt \in Formats, args \in ArgLists :
    \E r \in {NewRequest(cfg, method, urlfmt, args)} :
        /\ config = r.config
        /\ chain = r.chain
        /\ http = r.http
        /\ query = r.query
        /\ panicked = FALSE
        /\ handle = [chain |-> makeChain, resp |-> "none"]
        /\ calls = <<>>
        /\ doCount = 0
        /\ ctor = [method |-> method, urlfmt |-> urlfmt, args |-> args]
        /\ us = concatURLs(cfg.BaseURL, Sprintf(urlfmt, args))
        /\ op = Op("NewRequest", FALSE, NoDo, FALSE)
        /\ added = <<>>
        /\ lastBody = BodyCall("none", TRUE, "", <<>>)
        /\ lastHeaders = <<>>
        /\ nCalls = 0
        /\ nExpects = 0

\* a configuration call is made on a builder that has not panicked
Configure == ~panicked /\ nCalls < MaxCalls /\ nCalls' = nCalls + 1

ExpectUntouched == UNCHANGED <<handle, calls, doCount, ctor, us, nExpects>>

CallWithQuery ==
  \E kv \in QueryArgs :
    LET key == kv[1]
        value == kv[2]
    IN
    /\ Configure
    /\ \E r \in {WithQuery(Self, key, value)} : Store(r)
    /\ panicked' = WithQueryPanics(Self)
    /\ added' = IF WithQueryPanics(Self) THEN added
                ELSE Append(added, <<key, Sprint(value)>>)
    /\ op' = Op("WithQuery", WithQueryPanics(Self), NoDo, failed(chain))
    /\ lastHeaders' = <<>>
    /\ UNCHANGED lastBody
    /\ ExpectUntouched

CallWithHeader ==
  \E kv \in HeaderArgs :
    /\ Configure
    /\ \E r \in {WithHeader(Self, kv[1], kv[2])} : Store(r)
    /\ op' = Op("WithHeader", FALSE, NoDo, failed(chain))
    /\ lastHeaders' = <<kv>>
    /\ UNCHANGED <<panicked, added, lastBody>>
    /\ ExpectUntouched

CallWithHeaders ==
  \E headers \in HeaderMaps : \E entries \in headers :
    /\ Configure
    /\ \E r \in {WithHeaders(Self, entries)} : Store(r)
    /\ op' = Op("WithHeaders", FALSE, NoDo, failed(chain))
    /\ lastHeaders' = entries
    /\ UNCHANGED <<panicked, added, lastBody>>
    /\ ExpectUntouched

CallWithBody ==
  \E reader \in Readers :
    /\ Configure
    /\ \E r \in {WithBody(Self, reader)} : Store(r)
    /\ op' = Op("WithBody", FALSE, NoDo, failed(chain))
    /\ lastBody' = BodyCall("WithBody", reader = "", reader, <<>>)
    /\ lastHeaders' = <<>>
    /\ UNCHANGED <<panicked, added>>
    /\ ExpectUntouched

CallWithBytes ==
  \E b \in ByteSlices :
    /\ Configure
    /\ \E r \in {WithBytes(Self, b)} : Store(r)
    /\ op' = Op("WithBytes", FALSE, NoDo, failed(chain))
    /\ lastBody' = BodyCall("WithBytes", b.isNil, "", b.data)
    /\ lastHeaders' = <<>>
    /\ UNCHANGED <<panicked, added>>
    /\ ExpectUntouched

CallWithJSON ==
  \E object \in Objects : \E m \in {Marshal(object)} :
    /\ Configure
    /\ \E r \in {WithJSON(Self, object)} : Store(r)
    /\ op' = Op("WithJSON", m.err # NoError, NoDo, failed(chain))
    /\ lastBody' = IF m.err # NoError THEN lastBody
                   ELSE BodyCall("WithJSON", FALSE, "", m.b)
    /\ lastHeaders' = IF m.err # NoError THEN <<>> ELSE <<JSONContentType>>
    /\ UNCHANGED <<panicked, added>>
    /\ ExpectUntouched

\* Expect; Client.Do returns do if sendRequest gets to call it
CallExpect ==
  \E do \in DoResults :
    \E e \in {Expect(Self, do)} :
    LET called == \E i \in 1..Len(e.calls) : e.calls[i].fn = "Client.Do"
    IN  /\ ~panicked
        /\ nExpects < MaxExpects
        /\ nExpects' = nExpects + 1
        /\ Store(e.r)
        /\ panicked' = e.panic
        /\ handle' = IF e.panic THEN handle ELSE e.handle
        /\ calls' = e.calls
        /\ doCount' = IF called THEN doCount + 1 ELSE doCount
        /\ op' = Op("Expect", FALSE, IF called THEN do ELSE NoDo, failed(chain))
        /\ lastHeaders' = <<>>
        /\ UNCHANGED <<ctor, us, added, lastBody, nCalls>>

Next ==
  \/ CallWithQuery
  \/ CallWithHeader
  \/ CallWithHeaders
  \/ CallWithBody
  \/ CallWithBytes
  \/ CallWithJSON
  \/ CallExpect

Spec == Init /\ [][Next]_vars

(***************************************************************************)
(* NewRequest on its own, over a wider range of base URLs, formats and     *)
(* arguments: before the call there is no Request (its fields are shown    *)
(* with their zero values), the call stores the Request it returns.        *)
(***************************************************************************)
NewBaseURLs ==
  {<<>>, <<"/">>, <<"e">>, <<"e", "/">>, <<"e", "/", "/">>,
   <<"h", ":", "/", "/", "e">>, <<"h", ":", "/", "/", "e", "/">>}

NewFormats ==
  {<<>>, <<"/">>, <<"p">>, <<"/", "p">>, <<"/", "/", "p">>, <<"%", "s">>,
   <<"/", "%", "s">>, <<"?", "%", "s">>, <<":">>}

NewArgLists == {<<>>, <<StrV(<<"x">>)>>, <<Nil>>, <<StrV(<<"x">>), Nil>>}

InitNew ==
  \E base \in NewBaseURLs, method \in Methods, urlfmt \in NewFormats, args \in NewArgLists :
    /\ config = [BaseURL |-> base, Printer |-> FALSE]
    /\ chain = makeChain
    /\ http = [Method |-> "", URL |-> NilURL, Header |-> EmptyValues,
               Body |-> NoBody, ContentLength |-> 0]
    /\ query = NilValues
    /\ panicked = FALSE
    /\ handle = [chain |-> makeChain, resp |-> "none"]
    /\ calls = <<>>
    /\ doCount = 0
    /\ ctor = [method |-> method, urlfmt |-> urlfmt, args |-> args]
    /\ us = <<>>
    /\ op = Op("none", FALSE, NoDo, FALSE)
    /\ added = <<>>
    /\ lastBody = BodyCall("none", TRUE, "", <<>>)
    /\ lastHeaders = <<>>
    /\ nCalls = 0
    /\ nExpects = 0

CallNewRequest ==
  /\ op.name = "none"
  /\ \E r \in {NewRequest(config, ctor.method, ctor.urlfmt, ctor.args)} : Store(r)
  /\ us' = concatURLs(config.BaseURL, Sprintf(ctor.urlfmt, ctor.args))
  /\ op' = Op("NewRequest", FALSE, NoDo, FALSE)
  /\ UNCHANGED <<panicked, handle, calls, doCount, ctor, added, lastBody, lastHeaders,
                 nCalls, nExpects>>

NextNew == CallNewRequest

SpecNew == InitNew /\ [][NextNew]_vars

(***************************************************************************)
(* Properties.                                                             *)
(***************************************************************************)
\* the string NewRequest handed to url.Parse
Joined == concatURLs(config.BaseURL, Sprintf(ctor.urlfmt, ctor.args))

DoCalls == {i \in 1..Len(calls) : calls[i].fn = "Client.Do"}

ConfigNames == {"WithQuery", "WithHeader", "WithHeaders", "WithBody", "WithBytes", "WithJSON"}

\* C1: once a failure is recorded no later call clears it, and an Expect on
\* a failed builder returns a handle without a response and calls neither
\* Client.Do nor the Printer.
C1_FailedExpectSkipsDispatch ==
  /\ op.wasFailed => failed(chain)
  /\ (op.name = "Expect" /\ op.wasFailed) =>
       (handle.resp = NilResponse /\ calls = <<>> /\ op.do = NoDo)

\* an Expect on a builder that failed earlier and was configured since
C1_Witness ==
  /\ op.name = "Expect"
  /\ op.wasFailed
  /\ nCalls >= 1
  /\ handle.resp = NilResponse

\* C2: after a failure was recorded, every configuration call completes
\* without a panic.
C2_ConfigurationNeverPanics ==
  (op.name \in ConfigNames /\ op.wasFailed) => ~panicked

C4_DispatchedAtMostOnce == doCount <= 1

\* C5: body and content length are those of the last body call that did not
\* fail: none and 0 after a nil reader or slice, the stream and -1 after a
\* reader, the bytes and their count after a slice or a marshalled object.
C5_LastBodyCallWins ==
  /\ (lastBody.name = "none" \/ lastBody.isNil) =>
       (http.Body = NoBody /\ http.ContentLength = 0)
  /\ (lastBody.name = "WithBody" /\ ~lastBody.isNil) =>
       (http.Body = StreamBody(lastBody.reader) /\ http.ContentLength = 0 - 1)
  /\ (lastBody.name \in {"WithBytes", "WithJSON"} /\ ~lastBody.isNil) =>
       (http.Body = BytesBody(lastBody.data) /\ http.ContentLength = Len(lastBody.data))

\* WithBytes(nil) after a successful WithJSON: the Content-Type header the
\* WithJSON added is there, its body is gone
C5_Witness ==
  /\ op.name = "WithBytes"
  /\ lastBody.isNil
  /\ DOMAIN http.Header # {}
  /\ \A key \in DOMAIN http.Header : Len(key) > 1
  /\ http.Body = NoBody

\* C6: a WithJSON whose value does not serialize leaves body, content
\* length, headers and query as they were and records exactly one failure.
C6_FailedJSONChangesNothing ==
  [][(op'.name = "WithJSON" /\ op'.err /\ nCalls' = nCalls + 1) =>
       (http' = http /\ query' = query /\ failed(chain')
          /\ chain'.nfail = chain.nfail + 1)]_vars

\* a failed WithJSON on a builder that has a body and a header
C6_Witness ==
  /\ op.name = "WithJSON"
  /\ op.err
  /\ http.Body.kind = "bytes"
  /\ DOMAIN http.Header # {}

\* C7: when Client.Do returns an error the failure is recorded, the handle
\* has no response and Printer.Response is not called.
C7_TransportErrorRecorded ==
  (op.name = "Expect" /\ op.do.err = "transport error") =>
    /\ failed(chain)
    /\ ~op.wasFailed
    /\ handle.resp = NilResponse
    /\ \A i \in 1..Len(calls) : calls[i].fn # "Printer.Response"

\* Client.Do returned an error (and a response with it), a printer being set
C7_Witness ==
  /\ op.name = "Expect"
  /\ op.do = [resp |-> "resp", err |-> "transport error"]
  /\ config.Printer

\* C8: an Expect on a builder that is not failed calls Printer.Request (if a
\* printer is set), then Client.Do once, then Printer.Response (if a printer
\* is set and Client.Do returned no error); the request Printer.Request and
\* Client.Do see has the encoded query in its URL.
C8_CollaboratorOrder ==
  (op.name = "Expect" /\ ~op.wasFailed /\ ~panicked) =>
    /\ [i \in 1..Len(calls) |-> calls[i].fn] =
         (IF config.Printer THEN <<"Printer.Request">> ELSE <<>>) \o <<"Client.Do">>
           \o (IF config.Printer /\ op.do.err = NoError THEN <<"Printer.Response">>
               ELSE <<>>)
    /\ \A i \in 1..Len(calls) :
         /\ calls[i].url = http.URL
         /\ ~query.isNil => calls[i].url.RawQuery = Encode(query.m)

\* a dispatch with a printer and a query: three calls, the first with the
\* merged query in its URL
C8_Witness ==
  /\ op.name = "Expect"
  /\ ~op.wasFailed
  /\ Len(calls) = 3
  /\ calls[1].fn = "Printer.Request"
  /\ calls[1].url.RawQuery = <<"a", "=", "0", "&", "a", "=", "1", "&", "b", "=", "1">>

\* C9: when Client.Do returns a response or an error and not both, the
\* handle Expect returns carries the chain as it is after the dispatch, and
\* it has no response exactly when that chain is failed.
C9_HandleTellsFailure ==
  (op.name = "Expect" /\ ~panicked
     /\ (op.do = NoDo \/ ((op.do.resp = NilResponse) = (op.do.err # NoError)))) =>
    /\ handle.chain = chain
    /\ (handle.resp = NilResponse) = failed(handle.chain)

\* the failure is the transport error of this very Expect
C9_Witness ==
  /\ op.name = "Expect"
  /\ ~op.wasFailed
  /\ op.do = [resp |-> NilResponse, err |-> "transport error"]
  /\ handle.resp = NilResponse
  /\ failed(handle.chain)

\* the values WithQuery added under key, in call order
AddedValues(key) ==
  LET IsKey(kv) == kv[1] = key
      sel == SelectSeq(added, IsKey)
  IN  [i \in 1..Len(sel) |-> sel[i][2]]

\* the values of key in the query string of the URL NewRequest parsed
TemplateValues(key) ==
  LET t == Query(Parse(Joined).url)
  IN  IF key \in DOMAIN t THEN t[key] ELSE <<>>

\* C10: once WithQuery was called, the values of each key are those of the
\* template's query string followed by those WithQuery added, in call order.
C10_QueryAccumulates ==
  ~query.isNil =>
    /\ DOMAIN query.m =
         DOMAIN Query(Parse(Joined).url) \cup {added[i][1] : i \in 1..Len(added)}
    /\ \A key \in DOMAIN query.m : query.m[key] = TemplateValues(key) \o AddedValues(key)

\* key a holds the template's 0, then "x " and 1 as they were added
C10_Witness ==
  /\ ~query.isNil
  /\ <<"a">> \in DOMAIN query.m
  /\ query.m[<<"a">>] = <<<<"0">>, <<"x", " ">>, <<"1">>>>

\* the pairs of a raw query, split at each '&'
RECURSIVE RawPairs(_)
RawPairs(raw) ==
  IF raw = <<>> THEN <<>> ELSE <<CutBefore(raw, "&")>> \o RawPairs(CutAfter(raw, "&"))

\* the keys of a raw query's pairs, unescaped, are in ascending order
KeysAscend(raw) ==
  LET pairs == RawPairs(raw)
      key(i) == QueryUnescape(CutBefore(pairs[i], "=")).s
  IN  \A i \in 1..Len(pairs) : \A j \in (i + 1)..Len(pairs) : ~StrLess(key(j), key(i))

SameKey(k1, k2) ==
  /\ Len(k1) = Len(k2)
  /\ \A i \in 1..Len(k1) : k1[i] = k2[i] \/ ToLower(k1[i]) = ToLower(k2[i])

\* the values h holds under key or a case variant of it
ValuesUnder(h, key) ==
  IF \E k \in DOMAIN h : SameKey(k, key)
    THEN h[CHOOSE k \in DOMAIN h : SameKey(k, key)]
    ELSE <<>>

\* the values of the pairs added under key or a case variant of it, in order
AddedUnder(pairs, key) ==
  LET IsKey(kv) == SameKey(kv[1], key)
      sel == SelectSeq(pairs, IsKey)
  IN  [i \in 1..Len(sel) |-> sel[i][2]]

\* C12: header keys are case-insensitive and values are only ever added:
\* after every call the values under a key (in any case variant) are those
\* that were there before the call followed by those the call added under a
\* case variant of the key, in the order it added them (a call that adds
\* nothing leaves the headers as they are).
C12_HeadersAccumulate ==
  [][\/ (http'.Header = http.Header /\ lastHeaders' = <<>>)
     \/ /\ \A k1, k2 \in DOMAIN http'.Header : SameKey(k1, k2) => k1 = k2
        /\ \A key \in DOMAIN http.Header \cup DOMAIN http'.Header
                     \cup {lastHeaders'[i][1] : i \in 1..Len(lastHeaders')} :
             ValuesUnder(http'.Header, key) =
               ValuesUnder(http.Header, key) \o AddedUnder(lastHeaders', key)]_vars

\* WithHeader("x", "1"), then WithHeaders with X: 2 and x: 1 ranged over in
\* that order: one key holds the three values
C12_Witness ==
  /\ op.name = "WithHeaders"
  /\ lastHeaders = << <<<<"X">>, <<"2">>>>, <<<<"x">>, <<"1">>>> >>
  /\ DOMAIN http.Header = {<<"X">>}
  /\ http.Header[<<"X">>] = <<<<"1">>, <<"2">>, <<"1">>>>

\* the values h holds under exactly this key
ValuesOf(h, key) == IF key \in DOMAIN h THEN h[key] ELSE <<>>

RECURSIVE WithEach(_, _)
WithEach(r, pairs) ==
  IF pairs = <<>> THEN r
  ELSE WithEach(WithHeader(r, Head(pairs)[1], Head(pairs)[2]), Tail(pairs))

\* the orders in which the entries of a map can be ranged over, given one
Orders(entries) ==
  {[i \in 1..Len(entries) |-> entries[f[i]]] : f \in Permutations(1..Len(entries))}

\* C14 as stated: what WithHeaders leaves is what WithHeader, called once per
\* entry of the map, leaves, whatever the order the entries are taken in.
C14_HeadersAnyOrder ==
  [][(op'.name = "WithHeaders" /\ nCalls' = nCalls + 1) =>
       \A entries \in Orders(lastHeaders') : WithEach(Self, entries) = Self']_vars

\* C14 as amended: what WithHeaders leaves is what WithHeader, called once
\* per entry in the order the map was ranged over, leaves; when no two keys
\* of the map are case variants of one another, every other order leaves
\* the same.
C14_HeadersAnyOrderOfDistinctKeys ==
  [][(op'.name = "WithHeaders" /\ nCalls' = nCalls + 1) =>
       /\ WithEach(Self, lastHeaders') = Self'
       /\ (\A i, j \in 1..Len(lastHeaders') :
             SameKey(lastHeaders'[i][1], lastHeaders'[j][1]) => i = j) =>
            \A entries \in Orders(lastHeaders') : WithEach(Self, entries) = Self']_vars

\* WithHeaders with y: 3 and x: 1, ranged over in that order, on a builder
\* that has a value under X
C14_Witness ==
  /\ op.name = "WithHeaders"
  /\ lastHeaders = << <<<<"y">>, <<"3">>>>, <<<<"x">>, <<"1">>>> >>
  /\ ValuesOf(http.Header, <<"X">>) = <<<<"2">>, <<"1">>>>
  /\ ValuesOf(http.Header, <<"Y">>) = <<<<"3">>>>

\* the path NewRequest joins to the base URL
Interpolated == Sprintf(ctor.urlfmt, ctor.args)

\* str without its last character if that is a slash
TrimSlashRight(str) ==
  IF str # <<>> /\ str[Len(str)] = "/" THEN SubSeq(str, 1, Len(str) - 1) ELSE str

\* str without its first character if that is a slash
TrimSlashLeft(str) ==
  IF str # <<>> /\ str[1] = "/" THEN SubSeq(str, 2, Len(str)) ELSE str

\* C15: the join of a non-empty base and a non-empty path is the base
\* without one trailing slash, one slash, and the path without one leading
\* slash; so a base that has no trailing slash and a path that has no
\* leading slash (neither empty) join to the same string with or without the
\* slash added to either.
C15_JoinStripsOneSlashPair ==
  (op.name = "NewRequest" /\ config.BaseURL # <<>> /\ Interpolated # <<>>) =>
    LET b == TrimSlashRight(config.BaseURL)
        p == TrimSlashLeft(Interpolated)
    IN  /\ us = b \o <<"/">> \o p
        /\ (b # <<>> /\ p # <<>> /\ b[Len(b)] # "/" /\ p[1] # "/") =>
             \A bb \in {b, b \o <<"/">>}, pp \in {p, <<"/">> \o p} : concatURLs(bb, pp) = us

\* base with a trailing slash, path with a leading one
C15_Witness ==
  /\ op.name = "NewRequest"
  /\ config.BaseURL = <<"h", ":", "/", "/", "e", "/">>
  /\ Interpolated = <<"/", "x">>
  /\ us = <<"h", ":", "/", "/", "e", "/", "x">>

\* C16: the join of an empty base and a path is the path, the join of a base
\* and an empty path is the base, each as it was given.
C16_JoinWithEmpty ==
  op.name = "NewRequest" =>
    /\ config.BaseURL = <<>> => us = Interpolated
    /\ Interpolated = <<>> => us = config.BaseURL

\* a base with a trailing slash and an empty path: the slash stays
C16_Witness ==
  /\ op.name = "NewRequest"
  /\ config.BaseURL = <<"e", "/">>
  /\ Interpolated = <<>>
  /\ us = <<"e", "/">>

\* C17: NewRequest returns a builder whatever its arguments; the builder is
\* failed exactly when an argument is nil or the joined string does not
\* parse; the URL is what url.Parse made of the joined string, nil argument
\* or not; the method and the config are those given, there is no header, no
\* body and no query multi-map.
C17_FailedIffNilOrUnparsed ==
  op.name = "NewRequest" =>
    /\ failed(chain) =
         ((\E i \in 1..Len(ctor.args) : ctor.args[i] = Nil) \/ Parse(us).err # NoError)
    /\ http.URL = Parse(us).url
    /\ http.URL.isNil = (Parse(us).err # NoError)
    /\ http.Method = ctor.method
    /\ http.Header = EmptyValues
    /\ http.Body = NoBody
    /\ query = NilValues

\* a nil argument, and the joined string parsed all the same
C17_Witness ==
  /\ op.name = "NewRequest"
  /\ ctor.args = <<Nil>>
  /\ failed(chain)
  /\ ~http.URL.isNil
  /\ http.URL.Path = <<"e", "/">>
  /\ http.URL.RawQuery = <<"%", "!", "s", "(", "<", "n", "i", "l", ">", ")">>

\* C18: a builder whose URL is nil is failed; so an Expect that found the
\* builder not failed had a URL to write the raw query to, did not panic,
\* and handed a URL to every collaborator it called.
C18_NilURLOnlyIfFailed ==
  /\ http.URL.isNil => failed(chain)
  /\ (op.name = "Expect" /\ ~op.wasFailed) =>
       /\ ~http.URL.isNil
       /\ ~panicked
       /\ \A i \in 1..Len(calls) : ~calls[i].url.isNil

\* an Expect on a configured builder whose URL is nil: nothing was called
C18_Witness ==
  /\ op.name = "Expect"
  /\ http.URL.isNil
  /\ op.wasFailed
  /\ nCalls >= 1
  /\ ~panicked
  /\ calls = <<>>

\* C19: WithQuery, WithHeader, WithHeaders, WithBody and WithBytes leave the
\* config, the chain, the method and the URL as they are and call no
\* collaborator; WithQuery changes nothing of the http.Request, WithHeader
\* and WithHeaders change neither query nor body nor content length,
\* WithBody and WithBytes change neither query nor headers.
C19_ConfigurationFrames ==
  [][(nCalls' = nCalls + 1
        /\ op'.name \in {"WithQuery", "WithHeader", "WithHeaders", "WithBody", "WithBytes"}) =>
       /\ config' = config
       /\ chain' = chain
       /\ http'.Method = http.Method
       /\ http'.URL = http.URL
       /\ calls' = calls
       /\ doCount' = doCount
       /\ handle' = handle
       /\ op'.name = "WithQuery" => http' = http
       /\ op'.name \in {"WithHeader", "WithHeaders"} =>
            /\ query' = query
            /\ http'.Body = http.Body
            /\ http'.ContentLength = http.ContentLength
       /\ op'.name \in {"WithBody", "WithBytes"} =>
            /\ query' = query
            /\ http'.Header = http.Header]_vars

\* WithBody(nil) after a successful WithJSON: the body is gone, the
\* Content-Type header stays
C19_Witness ==
  /\ op.name = "WithBody"
  /\ lastBody.isNil
  /\ http.Body = NoBody
  /\ http.ContentLength = 0
  /\ ValuesOf(http.Header, JSONContentType[1]) = <<JSONContentType[2]>>

====
